---- MODULE Spec2Model ----
(***************************************************************************)
(* Compass travel planner: the itinerary pipeline (AgentOrchestrator and   *)
(* its eight agents), the /plan routes with their in-memory status map,    *)
(* and the pure geo / scheduling / budget functions.                       *)
(*                                                                         *)
(* Conventions                                                             *)
(*  - an optional field (coordinates?, estimatedCost?) is <<>> when absent *)
(*    and <<v>> when present; priceLevel 0 stands for an absent priceLevel *)
(*    (the code only ever tests it for truthiness);                        *)
(*  - all locations lie on one meridian: a coordinate is the kilometre     *)
(*    mark along it, so that the haversine distance of two coordinates is  *)
(*    the difference of their marks;                                       *)
(*  - money is counted in half units of the currency (base * priceLevel/2  *)
(*    is a multiple of one half);                                          *)
(*  - objects are told apart by their position in the list that holds them.*)
(***************************************************************************)
EXTENDS Integers, Sequences, FiniteSets, TLC

\* ------------------------------------------------------------------ bounds
MaxNames == 2      \* location names extracted from the screenshots of a run
MaxLocs == 3       \* length of the location lists given to the pure functions
MaxDays == 3       \* numDays given to the scheduler
MaxRuns == 2       \* POST /plan requests accepted by the server
MaxClock == 2      \* milliseconds Date.now() may advance while the server runs
MaxDayLocs == 7    \* locations of the one day given to the day scheduler
MaxBudgetLocs == 6 \* locations of the lists given to the budget fallback

\* ------------------------------------------------------- small utilities
Range(s) == {s[i] : i \in 1..Len(s)}

Abs(x) == IF x < 0 THEN -x ELSE x

Max2(a, b) == IF a >= b THEN a ELSE b

Min2(a, b) == IF a <= b THEN a ELSE b

\* Math.floor(a / b) where the code has Math.ceil
FloorDiv(a, b) == a \div b

\* Math.ceil(a / b) for a >= 0, b > 0
CeilDiv(a, b) == (a + b - 1) \div b

RECURSIVE SeqSum(_)
SeqSum(s) == IF s = <<>> THEN 0 ELSE s[1] + SeqSum(Tail(s))

RECURSIVE Flatten(_)
Flatten(ss) == IF ss = <<>> THEN <<>> ELSE ss[1] \o Flatten(Tail(ss))

\* the elements of a set of integers in ascending order
RECURSIVE AscSeq(_)
AscSeq(S) == IF S = {} THEN <<>>
             ELSE LET m == CHOOSE x \in S : \A y \in S : x <= y
                  IN <<m>> \o AscSeq(S \ {m})

\* Array.prototype.slice(from, to) with 0-based, end-exclusive indices
Slice(s, from, to) ==
    LET lo == Min2(from, Len(s))
        hi == Min2(to, Len(s))
    IN IF hi <= lo THEN <<>> ELSE SubSeq(s, lo + 1, hi)

\* number of positions of s holding the id x
CountId(s, x) == Cardinality({i \in 1..Len(s) : s[i] = x})

\* all sequences over S of length at most n
SeqsUpTo(S, n) == UNION {[1..k -> S] : k \in 0..n}

\* ------------------------------------------------------------ data model
LocationTypes == {"restaurant", "attraction", "activity", "accommodation",
                  "viewpoint", "market", "temple", "cafe", "other"}

Loc(id, name, coordinates, type, priceLevel, estimatedCost) ==
    [id |-> id, name |-> name, coordinates |-> coordinates, type |-> type,
     priceLevel |-> priceLevel, estimatedCost |-> estimatedCost]

Ids(locations) == [i \in 1..Len(locations) |-> locations[i].id]

DistinctIds(locations) ==
    \A i, j \in 1..Len(locations) : locations[i].id = locations[j].id => i = j

\* String.prototype.includes on the lower-cased name, for the names in use
NameIncludes(name, word) ==
    CASE word = "breakfast" -> name \in {"Breakfast Club"}
      [] word = "dinner" -> name \in {"Sushi Dinner House"}
      [] OTHER -> FALSE

\* ---------------------------------------------------------- geo primitives
haversineDistance(coord1, coord2) == Abs(coord1[1] - coord2[1])

\* the mean of the coordinates of a cluster is kept exact, as <<sum, count>>
calculateCentroid(locations) ==
    LET withCoords == SelectSeq(locations, LAMBDA l : l.coordinates # <<>>)
    IN IF withCoords = <<>> THEN <<0, 1>>
       ELSE <<SeqSum([i \in 1..Len(withCoords) |-> withCoords[i].coordinates[1]]),
              Len(withCoords)>>

\* haversineDistance of two centroids, as the fraction <<numerator, denominator>>
centroidDistance(c1, c2) == <<Abs(c1[1] * c2[2] - c2[1] * c1[2]), c1[2] * c2[2]>>

FracLess(a, b) == a[1] * b[2] < b[1] * a[2]

\* ------------------------------------------------------- ClusteringAgent
CLUSTER_RADIUS_KM == 3

clusterDurations ==
    [restaurant |-> 75, attraction |-> 90, activity |-> 120, accommodation |-> 0,
     viewpoint |-> 30, market |-> 60, temple |-> 60, cafe |-> 45, other |-> 45]

\* durations[location.type] || 45
estimateDuration(location) ==
    IF clusterDurations[location.type] # 0 THEN clusterDurations[location.type] ELSE 45

\* the inner loop of clusterByProximity: every unassigned location with
\* coordinates within the radius of the seed joins the cluster of the seed
RECURSIVE findNearby(_, _, _, _, _)
findNearby(locations, j, seed, cluster, assigned) ==
    IF j > Len(locations) THEN [cluster |-> cluster, assigned |-> assigned]
    ELSE LET other == locations[j]
         IN IF other.id \in assigned \/ other.coordinates = <<>>
            THEN findNearby(locations, j + 1, seed, cluster, assigned)
            ELSE IF haversineDistance(seed.coordinates, other.coordinates)
                        <= CLUSTER_RADIUS_KM
                 THEN findNearby(locations, j + 1, seed,
                          [cluster EXCEPT
                              !.locations = Append(@, other),
                              !.suggestedDuration = @ + estimateDuration(other)],
                          assigned \cup {other.id})
                 ELSE findNearby(locations, j + 1, seed, cluster, assigned)

\* the seed test without its look at assigned
seedSkippedUnassigned(location, assigned) == location.coordinates = <<>>

\* if (assigned.has(location.id) || !location.coordinates) continue
seedSkipped(location, assigned) ==
    location.id \in assigned \/ location.coordinates = <<>>

\* the outer loop of clusterByProximity
RECURSIVE clusterLoop(_, _, _, _)
clusterLoop(locations, i, clusters, assigned) ==
    IF i > Len(locations) THEN clusters
    ELSE LET location == locations[i]
         IN IF seedSkipped(location, assigned)
            THEN clusterLoop(locations, i + 1, clusters, assigned)
            ELSE LET fresh == [id |-> Len(clusters) + 1,
                               centroid |-> <<location.coordinates[1], 1>>,
                               locations |-> <<location>>,
                               suggestedDuration |-> estimateDuration(location)]
                     grown == findNearby(locations, 1, location, fresh,
                                         assigned \cup {location.id})
                     done == [grown.cluster EXCEPT
                                 !.centroid = calculateCentroid(grown.cluster.locations)]
                 IN clusterLoop(locations, i + 1, Append(clusters, done),
                                grown.assigned)

clusterByProximity(locations) == clusterLoop(locations, 1, <<>>, {})

\* the scan with dist <= nearestDist: of the nearest candidates the last wins
nearestToLastOfTies(locations, current, candidates) ==
    CHOOSE i \in candidates :
        \A k \in candidates :
            \/ haversineDistance(current.coordinates, locations[i].coordinates)
                   < haversineDistance(current.coordinates, locations[k].coordinates)
            \/ /\ haversineDistance(current.coordinates, locations[i].coordinates)
                      = haversineDistance(current.coordinates, locations[k].coordinates)
               /\ i >= k

\* the scan of remaining for the nearest candidate (dist < nearestDist): of the
\* candidates at the least distance, the first in insertion order
nearestTo(locations, current, candidates) ==
    CHOOSE i \in candidates :
        \A k \in candidates :
            \/ haversineDistance(current.coordinates, locations[i].coordinates)
                   < haversineDistance(current.coordinates, locations[k].coordinates)
            \/ /\ haversineDistance(current.coordinates, locations[i].coordinates)
                      = haversineDistance(current.coordinates, locations[k].coordinates)
               /\ i <= k

\* the while loop of optimizeClusterOrder; ordered and remaining hold positions
\* of the input list (the Set holds objects, iterated in insertion order)
RECURSIVE nearestNeighbourLoop(_, _, _)
nearestNeighbourLoop(locations, ordered, remaining) ==
    IF remaining = {} THEN ordered
    ELSE LET current == locations[ordered[Len(ordered)]]
             candidates == {i \in remaining : current.coordinates # <<>>
                                              /\ locations[i].coordinates # <<>>}
         IN IF candidates # {}
            THEN LET nearest == nearestTo(locations, current, candidates)
                 IN nearestNeighbourLoop(locations, Append(ordered, nearest),
                                         remaining \ {nearest})
            ELSE ordered \o AscSeq(remaining)

\* the router with remaining built from the whole list, not from slice(1)
optimizeClusterOrderIdxUnsliced(locations) ==
    IF Len(locations) <= 2 THEN [i \in 1..Len(locations) |-> i]
    ELSE nearestNeighbourLoop(locations, <<1>>, 1..Len(locations))

\* the positions of the input list in the order the router returns them
optimizeClusterOrderIdx(locations) ==
    IF Len(locations) <= 2 THEN [i \in 1..Len(locations) |-> i]
    ELSE nearestNeighbourLoop(locations, <<1>>, 2..Len(locations))

optimizeClusterOrder(locations) ==
    LET order == optimizeClusterOrderIdx(locations)
    IN [k \in 1..Len(order) |-> locations[order[k]]]

\* the while loop of optimizeClusterSequence, over positions of the cluster list
RECURSIVE clusterSequenceLoop(_, _, _)
clusterSequenceLoop(clusters, ordered, remaining) ==
    IF remaining = {} THEN ordered
    ELSE LET current == clusters[ordered[Len(ordered)]]
             dist(i) == centroidDistance(current.centroid, clusters[i].centroid)
             nearest == CHOOSE i \in remaining :
                            \A k \in remaining :
                                \/ FracLess(dist(i), dist(k))
                                \/ (~FracLess(dist(k), dist(i)) /\ i <= k)
         IN clusterSequenceLoop(clusters, Append(ordered, nearest),
                                remaining \ {nearest})

optimizeClusterSequence(clusters) ==
    IF Len(clusters) <= 2 THEN clusters
    ELSE LET order == clusterSequenceLoop(clusters, <<1>>, 2..Len(clusters))
         IN [k \in 1..Len(order) |-> clusters[order[k]]]

\* ClusteringAgent.process: the result record (totalDistance and mapUrl, which
\* nothing downstream reads, are left out)
clusteringProcess(locations) ==
    IF Len(locations) = 0
    THEN [success |-> FALSE, error |-> "No locations to cluster", clusters |-> <<>>]
    ELSE LET clusters == clusterByProximity(locations)
             routed == [c \in 1..Len(clusters) |->
                           [clusters[c] EXCEPT !.locations = optimizeClusterOrder(@)]]
         IN [success |-> TRUE, error |-> "",
             clusters |-> optimizeClusterSequence(routed)]

\* ------------------------------------------------------------- TimeAgent
\* minutes from midnight at which a location is best visited
\* getOptimalStartTime without the look at the restaurant's name
getOptimalStartTimeAnyName(location) ==
    CASE location.type = "viewpoint" -> 17 * 60
      [] location.type = "market" -> 10 * 60
      [] location.type = "restaurant" -> 12 * 60
      [] location.type = "attraction" -> 9 * 60
      [] OTHER -> 11 * 60

getOptimalStartTime(location) ==
    CASE location.type = "viewpoint" -> 17 * 60
      [] location.type = "market" -> 10 * 60
      [] location.type = "restaurant" ->
            IF NameIncludes(location.name, "breakfast") THEN 8 * 60
            ELSE IF NameIncludes(location.name, "dinner") THEN 19 * 60
            ELSE 12 * 60
      [] location.type = "attraction" -> 9 * 60
      [] OTHER -> 11 * 60

\* Array.prototype.sort with the comparator aTime - bTime: a stable sort
RECURSIVE insertByOptimalTime(_, _)
insertByOptimalTime(sorted, location) ==
    IF sorted = <<>> THEN <<location>>
    ELSE IF getOptimalStartTime(sorted[Len(sorted)]) <= getOptimalStartTime(location)
         THEN Append(sorted, location)
         ELSE Append(insertByOptimalTime(SubSeq(sorted, 1, Len(sorted) - 1), location),
                     sorted[Len(sorted)])

RECURSIVE sortByOptimalTime(_)
sortByOptimalTime(locations) ==
    IF locations = <<>> THEN <<>>
    ELSE insertByOptimalTime(
             sortByOptimalTime(SubSeq(locations, 1, Len(locations) - 1)),
             locations[Len(locations)])

visitDurations ==
    [restaurant |-> 75, attraction |-> 90, activity |-> 120, accommodation |-> 0,
     viewpoint |-> 45, market |-> 60, temple |-> 60, cafe |-> 45, other |-> 45]

\* durations[location.type] || 45
estimateVisitDuration(location) ==
    IF visitDurations[location.type] # 0 THEN visitDurations[location.type] ELSE 45

\* distance / 15 km/h in minutes is 4 minutes per kilometre
estimateTravelTime(from, to) ==
    IF from.coordinates = <<>> \/ to.coordinates = <<>> THEN 20
    ELSE Max2(10, 4 * haversineDistance(from.coordinates, to.coordinates))

\* adjustForMealTime with the windows closed at their upper hour (hour <= 12,
\* hour <= 18)
adjustForMealTimeThroughTheHour(location, currentTime) ==
    LET hour == currentTime \div 60
    IN IF location.type # "restaurant"
       THEN [adjust |-> FALSE, newTime |-> currentTime]
       ELSE IF hour >= 11 /\ hour <= 12 THEN [adjust |-> TRUE, newTime |-> 12 * 60]
       ELSE IF hour >= 17 /\ hour <= 18 THEN [adjust |-> TRUE, newTime |-> 18 * 60]
       ELSE [adjust |-> FALSE, newTime |-> currentTime]

adjustForMealTime(location, currentTime) ==
    LET hour == currentTime \div 60
    IN IF location.type # "restaurant"
       THEN [adjust |-> FALSE, newTime |-> currentTime]
       ELSE IF hour >= 11 /\ hour < 12 THEN [adjust |-> TRUE, newTime |-> 12 * 60]
       ELSE IF hour >= 17 /\ hour < 18 THEN [adjust |-> TRUE, newTime |-> 18 * 60]
       ELSE [adjust |-> FALSE, newTime |-> currentTime]

isOptimalVisitTime(location, currentTime) ==
    LET hour == currentTime \div 60
    IN CASE location.type = "viewpoint" -> hour >= 16 /\ hour <= 19
         [] location.type = "attraction" -> hour >= 9 /\ hour <= 11
         [] location.type = "market" -> hour >= 8 /\ hour <= 11
         [] location.type = "restaurant" ->
               (hour >= 12 /\ hour <= 14) \/ (hour >= 18 /\ hour <= 21)
         [] OTHER -> TRUE

\* the "HH:MM" string, as the pair <<HH, MM>>
minutesToTime(minutes) == <<(minutes \div 60) % 24, minutes % 60>>

\* parseInt(preferences.startTime.split(':')[0]), 9 without a start time
startHourOf(preferences) ==
    IF preferences.startTime # <<>> THEN preferences.startTime[1] ELSE 9

\* a rest break before every third location, counted from the first
needsRestBreakEveryThird(i, slots) == (i + 1) % 3 = 0 /\ Len(slots) > 0

\* if (i > 0 && i % 3 === 0 && slots.length > 0): a rest break
needsRestBreak(i, slots) == i > 0 /\ i % 3 = 0 /\ Len(slots) > 0

\* the for loop of createDaySchedule over the sorted locations
RECURSIVE scheduleLoop(_, _, _, _, _)
scheduleLoop(sortedLocations, i, currentTime, restBreaks, slots) ==
    IF i >= Len(sortedLocations)
    THEN [slots |-> slots, currentTime |-> currentTime, restBreaks |-> restBreaks]
    ELSE LET location == sortedLocations[i + 1]
             duration == estimateVisitDuration(location)
             travelTime == IF i > 0
                           THEN estimateTravelTime(sortedLocations[i], location)
                           ELSE 0
             needsBreak == needsRestBreak(i, slots)
             afterBreak == currentTime + travelTime + (IF needsBreak THEN 20 ELSE 0)
             mealAdjustment == adjustForMealTime(location, afterBreak)
             start == IF mealAdjustment.adjust THEN mealAdjustment.newTime
                      ELSE afterBreak
             slot == [locationId |-> location.id,
                      startTime |-> minutesToTime(start),
                      endTime |-> minutesToTime(start + duration),
                      duration |-> duration,
                      travelTime |-> travelTime,
                      isOptimalTime |-> isOptimalVisitTime(location, start)]
         IN scheduleLoop(sortedLocations, i + 1, start + duration,
                         restBreaks + (IF needsBreak THEN 1 ELSE 0),
                         Append(slots, slot))

\* the date (start date plus dayIndex days) is kept as the day index
createDaySchedule(locations, dayIndex, preferences) ==
    LET startHour == startHourOf(preferences)
        walked == scheduleLoop(sortByOptimalTime(locations), 0, startHour * 60, 0, <<>>)
    IN [date |-> dayIndex,
        slots |-> walked.slots,
        totalDuration |-> walked.currentTime - startHour * 60,
        restBreaks |-> walked.restBreaks]

\* the day loop without its skip
emptyDayKept(dayLocations) == FALSE

\* if (dayLocations.length === 0) continue
emptyDay(dayLocations) == Len(dayLocations) = 0

\* the for loop of TimeAgent.process over the days
RECURSIVE dayLoop(_, _, _, _, _, _)
dayLoop(orderedLocations, locationsPerDay, day, numDays, preferences, schedules) ==
    IF day >= numDays THEN schedules
    ELSE LET dayLocations == Slice(orderedLocations, day * locationsPerDay,
                                   (day + 1) * locationsPerDay)
         IN IF emptyDay(dayLocations)
            THEN dayLoop(orderedLocations, locationsPerDay, day + 1, numDays,
                         preferences, schedules)
            ELSE dayLoop(orderedLocations, locationsPerDay, day + 1, numDays,
                         preferences,
                         Append(schedules,
                                createDaySchedule(dayLocations, day, preferences)))

\* TimeAgent.process: the schedules it returns (warnings and suggestions are
\* advisory strings and left out); the locations parameter is never read
timeProcess(clusters, locations, preferences, numDays) ==
    LET orderedLocations == Flatten([c \in 1..Len(clusters) |-> clusters[c].locations])
        locationsPerDay == CeilDiv(Len(orderedLocations), numDays)
    IN [success |-> TRUE,
        schedules |-> dayLoop(orderedLocations, locationsPerDay, 0, numDays,
                              preferences, <<>>)]

\* ----------------------------------------------------------- BudgetAgent
baseCosts ==
    [restaurant |-> 25, attraction |-> 15, activity |-> 40, accommodation |-> 100,
     viewpoint |-> 0, market |-> 20, temple |-> 5, cafe |-> 15, other |-> 10]

\* (baseCosts[type] || 15) * ((priceLevel || 2) / 2), in half units
estimateCost(type, priceLevel) ==
    (IF baseCosts[type] # 0 THEN baseCosts[type] ELSE 15)
        * (IF priceLevel # 0 THEN priceLevel ELSE 2)

\* location.estimatedCost || this.estimateCost(location), in half units
breakdownCost(location) ==
    IF location.estimatedCost # <<>> /\ location.estimatedCost[1] # 0
    THEN location.estimatedCost[1]
    ELSE estimateCost(location.type, location.priceLevel)

\* the sum of cost over the locations whose type is in the given set
RECURSIVE costOfTypes(_, _)
costOfTypes(locations, types) ==
    IF locations = <<>> THEN 0
    ELSE (IF locations[1].type \in types THEN breakdownCost(locations[1]) ELSE 0)
         + costOfTypes(Tail(locations), types)

\* calculateBreakdown with transport truncated where the code rounds
calculateBreakdownTruncating(locations, numDays) ==
    LET food == costOfTypes(locations, {"restaurant"})
        activities == costOfTypes(locations, {"attraction", "activity"})
        accommodation == numDays * costOfTypes(locations, {"accommodation"})
        transport == 2 * ((3 * activities) \div 40)
        misc == costOfTypes(locations, LocationTypes \ {"restaurant", "attraction",
                                           "activity", "accommodation"})
                + 2 * ((food + activities + 10) \div 20)
    IN [food |-> food, activities |-> activities, transport |-> transport,
        accommodation |-> accommodation, misc |-> misc,
        total |-> food + activities + transport + accommodation + misc]

\* calculateBreakdown, every amount in half units; Math.round(x) is
\* floor(x + 1/2), so round(0.15 a) = (3 a2 + 20) div 40 and
\* round(0.1 (f + a)) = (f2 + a2 + 10) div 20 for a = a2/2, f = f2/2
calculateBreakdown(locations, numDays) ==
    LET food == costOfTypes(locations, {"restaurant"})
        activities == costOfTypes(locations, {"attraction", "activity"})
        accommodation == numDays * costOfTypes(locations, {"accommodation"})
        transport == 2 * ((3 * activities + 20) \div 40)
        misc == costOfTypes(locations, LocationTypes \ {"restaurant", "attraction",
                                           "activity", "accommodation"})
                + 2 * ((food + activities + 10) \div 20)
    IN [food |-> food, activities |-> activities, transport |-> transport,
        accommodation |-> accommodation, misc |-> misc,
        total |-> food + activities + transport + accommodation + misc]

\* location.estimatedCost || 0, in half units
costOrZero(location) ==
    IF location.estimatedCost # <<>> THEN location.estimatedCost[1] ELSE 0

\* [...locations].sort((a, b) => (b.estimatedCost || 0) - (a.estimatedCost || 0))
RECURSIVE insertByCostDesc(_, _)
insertByCostDesc(sorted, location) ==
    IF sorted = <<>> THEN <<location>>
    ELSE IF costOrZero(sorted[Len(sorted)]) >= costOrZero(location)
         THEN Append(sorted, location)
         ELSE Append(insertByCostDesc(SubSeq(sorted, 1, Len(sorted) - 1), location),
                     sorted[Len(sorted)])

RECURSIVE sortByCostDesc(_)
sortByCostDesc(locations) ==
    IF locations = <<>> THEN <<>>
    ELSE insertByCostDesc(sortByCostDesc(SubSeq(locations, 1, Len(locations) - 1)),
                          locations[Len(locations)])

\* an entry of keep / replace / remove carrying the location object
entryOf(location) == [location |-> <<location.id>>]

\* the for loop of simpleOptimization; overage and savings in half units
RECURSIVE simpleLoop(_, _, _, _, _)
simpleLoop(sorted, count, overage, savings, optimization) ==
    IF sorted = <<>> THEN optimization
    ELSE LET location == sorted[1]
             cost == costOrZero(location)
         IN IF savings >= overage
            THEN simpleLoop(Tail(sorted), count, overage, savings,
                     [optimization EXCEPT !.keep = Append(@, entryOf(location))])
            ELSE IF location.priceLevel >= 3 /\ location.type = "restaurant"
            THEN simpleLoop(Tail(sorted), count, overage,
                     savings + 2 * ((cost + 2) \div 4),
                     [optimization EXCEPT !.replace = Append(@, entryOf(location))])
            ELSE IF location.type = "activity" /\ cost > 2 * 50
            THEN simpleLoop(Tail(sorted), count, overage,
                     savings + 2 * ((7 * cost + 10) \div 20),
                     [optimization EXCEPT !.replace = Append(@, entryOf(location))])
            ELSE IF cost > 2 * 30 /\ count > 5
            THEN simpleLoop(Tail(sorted), count, overage, savings + cost,
                     [optimization EXCEPT !.remove = Append(@, entryOf(location))])
            ELSE simpleLoop(Tail(sorted), count, overage, savings,
                     [optimization EXCEPT !.keep = Append(@, entryOf(location))])

\* simpleOptimization walking the locations in the order given
simpleOptimizationUnsorted(locations, currentTotal, targetBudget) ==
    simpleLoop(locations, Len(locations), currentTotal - targetBudget, 0,
               [keep |-> <<>>, replace |-> <<>>, remove |-> <<>>,
                removeIsArray |-> TRUE])

\* removeIsArray is FALSE when the answer's "remove" is no array
simpleOptimization(locations, currentTotal, targetBudget) ==
    simpleLoop(sortByCostDesc(locations), Len(locations),
               currentTotal - targetBudget, 0,
               [keep |-> <<>>, replace |-> <<>>, remove |-> <<>>,
                removeIsArray |-> TRUE])

\* parseOptimizationResponse: an answer without a JSON object, or with one that
\* JSON.parse rejects, throws; otherwise the lists are taken as they come
parseOptimizationResponse(answer) ==
    IF ~answer.json
    THEN [threw |-> TRUE,
          optimization |-> [keep |-> <<>>, replace |-> <<>>, remove |-> <<>>,
                            removeIsArray |-> TRUE]]
    ELSE [threw |-> FALSE,
          optimization |-> [keep |-> answer.keep, replace |-> answer.replace,
                            remove |-> answer.remove,
                            removeIsArray |-> answer.removeIsArray]]

\* ChatService.callAgent for the reply of the chat collaborator: a missing
\* session is created first and a failure to create it is thrown, a failed
\* query is returned as success: false
callAgent(sessions, agentType, reply) ==
    IF agentType \notin sessions /\ reply.kind = "sessionError"
    THEN [threw |-> TRUE, success |-> FALSE, sessions |-> sessions]
    ELSE [threw |-> FALSE,
          success |-> reply.kind = "answer",
          sessions |-> sessions \cup {agentType}]

\* BudgetAgent.optimizeBudget
optimizeBudget(locations, currentTotal, targetBudget, sessions, reply) ==
    LET result == callAgent(sessions, "budget", reply)
        parsed == parseOptimizationResponse(reply.answer)
        simple == simpleOptimization(locations, currentTotal, targetBudget)
    IN IF result.threw THEN [threw |-> TRUE, optimization |-> simple]
       ELSE IF result.success /\ ~parsed.threw
            THEN [threw |-> FALSE, optimization |-> parsed.optimization]
            ELSE [threw |-> FALSE, optimization |-> simple]

\* applyOptimization: optimization.remove.map(r => r.location.id) throws when
\* remove is no array or an entry carries no location object
applyOptimization(locations, optimization) ==
    IF \/ ~optimization.removeIsArray
       \/ \E k \in 1..Len(optimization.remove) : optimization.remove[k].location = <<>>
    THEN [threw |-> TRUE, locations |-> <<>>]
    ELSE LET removeIds == {optimization.remove[k].location[1] :
                              k \in 1..Len(optimization.remove)}
         IN [threw |-> FALSE,
             locations |-> SelectSeq(locations, LAMBDA l : l.id \notin removeIds)]

\* BudgetAgent.process; preferences.budget is in whole units, the rest in halves
budgetProcess(locations, preferences, numDays, sessions, reply) ==
    LET breakdown == calculateBreakdown(locations, numDays)
        isOverBudget == breakdown.total > 2 * preferences.budget
        overageAmount == Max2(0, breakdown.total - 2 * preferences.budget)
        optimized == optimizeBudget(locations, breakdown.total,
                                    2 * preferences.budget, sessions, reply)
        applied == applyOptimization(locations, optimized.optimization)
        threw == isOverBudget /\ (optimized.threw \/ applied.threw)
    IN [success |-> ~threw,
        breakdown |-> breakdown,
        isOverBudget |-> isOverBudget,
        overageAmount |-> overageAmount,
        optimization |-> IF isOverBudget /\ ~threw
                         THEN <<optimized.optimization>> ELSE <<>>,
        adjustedLocations |-> IF isOverBudget /\ ~threw
                              THEN <<applied.locations>> ELSE <<>>,
        sessions |-> IF isOverBudget
                     THEN callAgent(sessions, "budget", reply).sessions
                     ELSE sessions]

\* ------------------------------------------- MapsService, SocialProofAgent
Place(placeId, name, coordinates, priceLevel, types) ==
    [placeId |-> placeId, name |-> name, coordinates |-> coordinates,
     priceLevel |-> priceLevel, types |-> types]

\* mockPlaceSearch: the place made up when the places search fails; rand holds
\* the draws of Math.random() for the coordinates and the price level
mockPlaceSearch(query, rand) ==
    [success |-> TRUE,
     data |-> <<Place("mock-1", query, <<rand.km>>, rand.priceLevel,
                      {"establishment", "point_of_interest"})>>]

\* searchPlace: the answer of the places search, or the mock when it fails
searchPlace(query, response) ==
    IF response.failed THEN mockPlaceSearch(query, response.rand)
    ELSE [success |-> TRUE, data |-> response.results]

classifyType(types) ==
    IF types \cap {"restaurant", "food"} # {} THEN "restaurant"
    ELSE IF types \cap {"lodging", "hotel"} # {} THEN "accommodation"
    ELSE IF types \cap {"museum", "tourist_attraction"} # {} THEN "attraction"
    ELSE IF types \cap {"park", "natural_feature"} # {} THEN "viewpoint"
    ELSE IF types \cap {"shopping_mall", "store"} # {} THEN "market"
    ELSE IF types \cap {"gym", "spa"} # {} THEN "activity"
    ELSE "other"

\* the for loop of SocialProofAgent.process: responses[k] answers the search
\* for locationNames[k]
RECURSIVE validateLoop(_, _, _, _)
validateLoop(locationNames, responses, k, validatedLocations) ==
    IF k > Len(locationNames) THEN validatedLocations
    ELSE LET searchResult == searchPlace(locationNames[k], responses[k])
         IN IF searchResult.success /\ Len(searchResult.data) > 0
            THEN LET place == searchResult.data[1]
                 IN validateLoop(locationNames, responses, k + 1,
                        Append(validatedLocations,
                               Loc(place.placeId, place.name, place.coordinates,
                                   classifyType(place.types), place.priceLevel, <<>>)))
            ELSE validateLoop(locationNames, responses, k + 1, validatedLocations)

socialProofProcess(locationNames, responses) ==
    [success |-> TRUE,
     validatedLocations |-> validateLoop(locationNames, responses, 1, <<>>)]

\* ---------------------------------------------------------- LocationAgent
\* (baseCosts[type] || 15) * ((priceLevel ? priceLevel : 2) / 2), in half units
locationEstimateCost(type, priceLevel) ==
    (IF baseCosts[type] # 0 THEN baseCosts[type] ELSE 15)
        * (IF priceLevel # 0 THEN priceLevel ELSE 2)

\* LocationAgent.process: every location gets its estimatedCost; the place
\* details, when they arrive, carry the coordinates the search already gave
locationProcess(locations) ==
    [success |-> TRUE,
     enrichedLocations |->
         [k \in 1..Len(locations) |->
             [locations[k] EXCEPT
                 !.estimatedCost = <<locationEstimateCost(locations[k].type,
                                                          locations[k].priceLevel)>>]]]

\* -------------------------------------------------------------- VibeAgent
inferLocationVibe(location) ==
    [aesthetic |-> IF location.type = "market" THEN "local"
                   ELSE IF location.priceLevel = 4 THEN "luxury"
                   ELSE IF location.priceLevel = 1 THEN "budget"
                   ELSE "local",
     ambiance |-> CASE location.type = "restaurant" ->
                          (IF location.priceLevel > 2 THEN "romantic" ELSE "relaxed")
                    [] location.type = "activity" -> "adventure"
                    [] location.type = "viewpoint" -> "romantic"
                    [] location.type = "market" -> "vibrant"
                    [] OTHER -> "relaxed"]

isCompatible(vibe, preferences) ==
    /\ ~(preferences.companions = "family" /\ vibe.ambiance = "vibrant")
    /\ ~("budget" \in preferences.travelStyle /\ vibe.aesthetic = "luxury")

\* VibeAgent.process: a failure to create the chat session is caught by the
\* agent's own try and returned as success: false
vibeProcess(locations, preferences, sessions, reply) ==
    LET called == callAgent(sessions, "vibe", reply)
        incompatible == SelectSeq(locations,
                            LAMBDA l : ~isCompatible(inferLocationVibe(l), preferences))
    IN [success |-> ~called.threw,
        incompatibleLocations |-> IF called.threw THEN <<>> ELSE Ids(incompatible),
        sessions |-> called.sessions]

\* --------------------------------------------------------- ItineraryAgent
\* new Map(locations.map(l => [l.id, l])).get(id): the last location of that id
lastWithId(locations, id) ==
    LET at == {k \in 1..Len(locations) : locations[k].id = id}
    IN IF at = {} THEN <<>>
       ELSE <<locations[CHOOSE k \in at : \A j \in at : j <= k]>>

getLocationsForDay(locations, slots) ==
    LET found == [k \in 1..Len(slots) |-> lastWithId(locations, slots[k].locationId)]
        kept == SelectSeq(found, LAMBDA f : f # <<>>)
    IN [k \in 1..Len(kept) |-> kept[k][1]]

\* createDayItinerary: slot i is paired with the i-th location of the day
createDayItinerary(schedule, locations, dayNumber) ==
    LET paired == {i \in 1..Len(schedule.slots) : i <= Len(locations)}
        order == AscSeq(paired)
    IN [dayNumber |-> dayNumber,
        date |-> schedule.date,
        locations |-> [k \in 1..Len(order) |->
                          [location |-> locations[order[k]],
                           slotLocationId |-> schedule.slots[order[k]].locationId,
                           startTime |-> schedule.slots[order[k]].startTime,
                           endTime |-> schedule.slots[order[k]].endTime,
                           duration |-> schedule.slots[order[k]].duration,
                           travelTime |-> schedule.slots[order[k]].travelTime]]]

\* ItineraryAgent.process: the days of the itinerary; the chat call for extra
\* insights is optional and its failure is swallowed
itineraryProcess(locations, schedules) ==
    [success |-> TRUE,
     days |-> [i \in 1..Len(schedules) |->
                  createDayItinerary(schedules[i],
                                     getLocationsForDay(locations, schedules[i].slots),
                                     i)]]

\* ------------------------------------------------ inputs of a pipeline run
\* names the vision stage reads off the screenshots
ExtractedNames == <<"Senso-ji Temple", "Nakamise Shopping Street", "Asakusa">>

\* rows of mockSmartExtraction, one of which is drawn when the analysis fails
MockRows == {<<"Senso-ji Temple", "Nakamise Shopping Street", "Asakusa">>,
             <<"Fushimi Inari Shrine", "Thousand Torii Gates">>}

\* places the search may answer with
Catalog ==
    {Place("gp-sushi", "Sushi Dinner House", <<0>>, 4, {"restaurant", "food"}),
     Place("gp-museum", "City Museum", <<2>>, 0, {"museum", "tourist_attraction"}),
     Place("gp-mall", "Old Market Mall", <<9>>, 2, {"shopping_mall"}),
     Place("gp-spa", "Sky Spa", <<>>, 3, {"spa"})}

\* draws of Math.random() in mockPlaceSearch
MockDraws == {[km |-> 1, priceLevel |-> 1], [km |-> 8, priceLevel |-> 3]}

NoDraw == [km |-> 0, priceLevel |-> 0]

SearchResponses ==
    {[failed |-> FALSE, results |-> <<p>>, rand |-> NoDraw] : p \in Catalog}
    \cup {[failed |-> FALSE, results |-> <<>>, rand |-> NoDraw]}
    \cup {[failed |-> TRUE, results |-> <<>>, rand |-> r] : r \in MockDraws}

Budgets == {40, 500}

PreferenceSet ==
    [budget : Budgets, companions : {"solo", "family"},
     travelStyle : {{"culture", "food"}, {"budget"}}, startTime : {<<9, 0>>}]

NoPreferences ==
    [budget |-> 500, companions |-> "solo", travelStyle |-> {"culture", "food"},
     startTime |-> <<9, 0>>]

NoAnswer ==
    [json |-> FALSE, keep |-> <<>>, replace |-> <<>>, remove |-> <<>>,
     removeIsArray |-> TRUE]

JsonAnswer(remove, removeIsArray) ==
    [json |-> TRUE, keep |-> <<>>, replace |-> <<>>, remove |-> remove,
     removeIsArray |-> removeIsArray]

\* answers of the chat collaborator to the budget request: no JSON at all, JSON
\* without removals, removals as {name, reason} (no location object), "remove"
\* that is no array, and removals carrying a location object of each id
BudgetAnswers(locations) ==
    {NoAnswer, JsonAnswer(<<>>, TRUE), JsonAnswer(<<[location |-> <<>>]>>, TRUE),
     JsonAnswer(<<>>, FALSE)}
    \cup {JsonAnswer(<<entryOf(locations[k])>>, TRUE) : k \in 1..Len(locations)}

ChatFailures == {[kind |-> "sessionError", answer |-> NoAnswer],
                 [kind |-> "queryError", answer |-> NoAnswer]}

BudgetReplies(locations) ==
    ChatFailures \cup {[kind |-> "answer", answer |-> a] : a \in BudgetAnswers(locations)}

VibeReplies == ChatFailures \cup {[kind |-> "answer", answer |-> NoAnswer]}

\* ------------------------------------------------------------------ state
VARIABLES
    run,        \* the pipeline run of AgentOrchestrator.process, with its history
    sessions,   \* ChatService.sessions: the agent types holding a chat session
    server,     \* the /plan routes: processingStatus, the callback, the clock
    fn,         \* input and results of the pure functions
    twin        \* a second run given the same request, as far as validation

vars == <<run, sessions, server, fn, twin>>

Status(stage, progress) == [stage |-> stage, progress |-> progress]

NoBudget ==
    [success |-> FALSE, breakdown |-> calculateBreakdown(<<>>, 1),
     isOverBudget |-> FALSE, overageAmount |-> 0, optimization |-> <<>>,
     adjustedLocations |-> <<>>, sessions |-> {}]

IdleRun ==
    [pc |-> "idle",
     preferences |-> NoPreferences,
     allLocations |-> <<>>,
     validatedLocations |-> <<>>,
     enrichedLocations |-> <<>>,
     finalLocations |-> <<>>,
     clusters |-> <<>>,
     numDays |-> 0,
     budget |-> NoBudget,
     budgetLocations |-> <<>>,
     schedules |-> <<>>,
     days |-> <<>>,
     statusLog |-> <<>>,
     result |-> <<>>,
     stored |-> <<>>,
     agentCalls |-> <<>>,
     failures |-> {},
     llmAnswer |-> <<>>]

IdleServer == [processingStatus |-> <<>>, callback |-> <<>>, now |-> 0,
               runs |-> <<>>, writes |-> {}]

IdleFn == [pc |-> "idle"]

IdleTwin == [pc |-> "idle", allLocations |-> <<>>, validatedLocations |-> <<>>]

LastStatus == run.statusLog[Len(run.statusLog)]

\* ----------------------------------------------------- AgentOrchestrator
\* updateStatus: the status callback receives the event
updateStatus(r, stage, progress) ==
    [r EXCEPT !.statusLog = Append(@, Status(stage, progress))]

called(r, agent) == [r EXCEPT !.agentCalls = Append(@, agent)]

\* the catch block without its status event
catchErrorUnreported(r, message) ==
    [r EXCEPT !.result = <<[success |-> FALSE, error |-> message]>>,
              !.pc = "returned"]

\* the catch block of process: the error event, and the failed result
catchError(r, message) ==
    [updateStatus(r, "error", 0) EXCEPT
        !.result = <<[success |-> FALSE, error |-> message]>>,
        !.pc = "returned"]

\* the orchestrator without its check on the validated locations
noValidLocationsUnchecked(validatedLocations) == FALSE

\* if (validatedLocations.length === 0) throw ...
noValidLocations(validatedLocations) == Len(validatedLocations) = 0

\* the filter of stage 4 without the comparison of the two lengths
filterIncompatibleUnguarded(enrichedLocations, vibeResult) ==
    IF vibeResult.success /\ Len(vibeResult.incompatibleLocations) > 0
    THEN SelectSeq(enrichedLocations,
                   LAMBDA l : l.id \notin Range(vibeResult.incompatibleLocations))
    ELSE enrichedLocations

\* stage 4: the incompatible locations are filtered out unless that would
\* leave nothing
filterIncompatible(enrichedLocations, vibeResult) ==
    IF /\ vibeResult.success
       /\ Len(vibeResult.incompatibleLocations) > 0
       /\ Len(enrichedLocations) > Len(vibeResult.incompatibleLocations)
    THEN SelectSeq(enrichedLocations,
                   LAMBDA l : l.id \notin Range(vibeResult.incompatibleLocations))
    ELSE enrichedLocations

\* Math.max(1, Math.ceil(finalLocations.length / 5))
numDaysFor(finalLocations) == Max2(1, CeilDiv(Len(finalLocations), 5))

\* adjustedLocations || finalLocations (an empty array is truthy)
budgetLocationsOf(budgetResult, finalLocations) ==
    IF budgetResult.adjustedLocations # <<>> THEN budgetResult.adjustedLocations[1]
    ELSE finalLocations

\* what the time agent is handed as its clusters
clustersForTime(clusters, budgetLocations) == clusters

\* the collaborator failure a chat reply amounts to, if any
chatFailure(agentType, reply) ==
    IF reply.kind = "sessionError" /\ agentType \notin sessions
    THEN {<<"chat session", agentType>>}
    ELSE IF reply.kind # "answer" THEN {<<"chat query", agentType>>}
    ELSE {}

\* POST /plan: the preferences are parsed, the status record is initialised
\* and process is called
PostPlan ==
    /\ run.pc = "idle"
    /\ \E p \in PreferenceSet :
          run' = [updateStatus(run, "uploading", 5) EXCEPT
                     !.preferences = p, !.pc = "vision"]
    /\ UNCHANGED <<sessions, server, fn, twin>>

\* stage 1: every screenshot is analysed, by the mock when the analysis fails
Stage1Vision ==
    /\ run.pc = "vision"
    /\ \E failed \in BOOLEAN :
       \E names \in IF failed THEN MockRows
                    ELSE {SubSeq(ExtractedNames, 1, k) : k \in 0..MaxNames} :
          run' = [called(updateStatus(run, "extracting", 10), "vision") EXCEPT
                     !.allLocations = names,
                     !.failures = @ \cup (IF failed THEN {<<"vision", "analyze">>}
                                          ELSE {}),
                     !.pc = "socialProof"]
    /\ UNCHANGED <<sessions, server, fn, twin>>

\* stage 2: the names are validated; no validated location is fatal
Stage2SocialProof ==
    /\ run.pc = "socialProof"
    /\ \E responses \in [1..Len(run.allLocations) -> SearchResponses] :
          LET r == called(updateStatus(run, "validating", 25), "socialProof")
              socialResult == socialProofProcess(run.allLocations, responses)
              seen == [r EXCEPT
                          !.validatedLocations = socialResult.validatedLocations,
                          !.failures = @ \cup
                              (IF \E k \in DOMAIN responses : responses[k].failed
                               THEN {<<"places", "search">>} ELSE {})]
          IN run' = IF noValidLocations(socialResult.validatedLocations)
                    THEN catchError(seen,
                             "No valid locations found. Please try different screenshots.")
                    ELSE [seen EXCEPT !.pc = "location"]
    /\ UNCHANGED <<sessions, server, fn, twin>>

\* stage 3: the validated locations are enriched
Stage3Location ==
    /\ run.pc = "location"
    /\ \E detailsFailed \in BOOLEAN :
          LET r == called(updateStatus(run, "validating", 40), "location")
              locationResult == locationProcess(run.validatedLocations)
          IN run' = [r EXCEPT
                        !.enrichedLocations = locationResult.enrichedLocations,
                        !.failures = @ \cup
                            (IF detailsFailed
                                /\ \E k \in 1..Len(run.validatedLocations) :
                                      run.validatedLocations[k].id # "mock-1"
                             THEN {<<"places", "details">>} ELSE {}),
                        !.pc = "vibe"]
    /\ UNCHANGED <<sessions, server, fn, twin>>

\* stage 4: the vibe analysis, whose failure is tolerated
Stage4Vibe ==
    /\ run.pc = "vibe"
    /\ \E reply \in VibeReplies :
          LET r == called(updateStatus(run, "validating", 50), "vibe")
              vibeResult == vibeProcess(run.enrichedLocations, run.preferences,
                                        sessions, reply)
          IN /\ run' = [r EXCEPT
                           !.finalLocations =
                               filterIncompatible(run.enrichedLocations, vibeResult),
                           !.failures = @ \cup chatFailure("vibe", reply),
                           !.pc = "clustering"]
             /\ sessions' = vibeResult.sessions
    /\ UNCHANGED <<server, fn, twin>>

\* stage 5: clustering and routing
Stage5Clustering ==
    /\ run.pc = "clustering"
    /\ LET r == called(updateStatus(run, "clustering", 60), "clustering")
           clusterResult == clusteringProcess(run.finalLocations)
       IN run' = IF ~clusterResult.success THEN catchError(r, clusterResult.error)
                 ELSE [r EXCEPT !.clusters = clusterResult.clusters, !.pc = "budget"]
    /\ UNCHANGED <<sessions, server, fn, twin>>

\* stage 6: the budget, optimised with the chat collaborator when over budget
Stage6Budget ==
    /\ run.pc = "budget"
    /\ \E reply \in BudgetReplies(run.finalLocations) :
          LET r == called(updateStatus(run, "optimizing", 70), "budget")
              numDays == numDaysFor(run.finalLocations)
              budgetResult == budgetProcess(run.finalLocations, run.preferences,
                                            numDays, sessions, reply)
              seen == [r EXCEPT
                          !.numDays = numDays,
                          !.budget = budgetResult,
                          !.failures = @ \cup (IF budgetResult.isOverBudget
                                               THEN chatFailure("budget", reply)
                                               ELSE {}),
                          !.llmAnswer = IF budgetResult.isOverBudget
                                           /\ reply.kind = "answer"
                                        THEN <<reply.answer>> ELSE <<>>]
          IN /\ run' = IF ~budgetResult.success
                       THEN catchError(seen, "Budget calculation failed")
                       ELSE [seen EXCEPT
                                !.budgetLocations =
                                    budgetLocationsOf(budgetResult, run.finalLocations),
                                !.pc = "time"]
             /\ sessions' = budgetResult.sessions
    /\ UNCHANGED <<server, fn, twin>>

\* stage 7: the schedule
Stage7Time ==
    /\ run.pc = "time"
    /\ LET r == called(updateStatus(run, "optimizing", 80), "time")
           timeResult == timeProcess(clustersForTime(run.clusters, run.budgetLocations),
                                     run.budgetLocations, run.preferences, run.numDays)
       IN run' = [r EXCEPT !.schedules = timeResult.schedules, !.pc = "itinerary"]
    /\ UNCHANGED <<sessions, server, fn, twin>>

\* stage 8: the itinerary is written and the run completes
Stage8Itinerary ==
    /\ run.pc = "itinerary"
    /\ \E reply \in VibeReplies :
          LET r == called(updateStatus(run, "generating", 90), "itinerary")
              itineraryResult == itineraryProcess(run.budgetLocations, run.schedules)
              written == [r EXCEPT
                             !.days = itineraryResult.days,
                             !.failures = @ \cup chatFailure("writer", reply)]
          IN /\ run' = [updateStatus(written, "complete", 100) EXCEPT
                           !.result = <<[success |-> TRUE, error |-> ""]>>,
                           !.pc = "returned"]
             /\ sessions' = callAgent(sessions, "writer", reply).sessions
    /\ UNCHANGED <<server, fn, twin>>

\* the route stores the result next to the last status of the session
StoreResult ==
    /\ run.pc = "returned"
    /\ run' = [run EXCEPT
                  !.stored = <<[stage |-> LastStatus.stage,
                                progress |-> LastStatus.progress,
                                result |-> run.result[1]]>>,
                  !.pc = "stored"]
    /\ UNCHANGED <<sessions, server, fn, twin>>

Init ==
    /\ run = IdleRun
    /\ sessions = {}
    /\ server = IdleServer
    /\ fn = IdleFn
    /\ twin = IdleTwin

Next ==
    \/ PostPlan
    \/ Stage1Vision
    \/ Stage2SocialProof
    \/ Stage3Location
    \/ Stage4Vibe
    \/ Stage5Clustering
    \/ Stage6Budget
    \/ Stage7Time
    \/ Stage8Itinerary
    \/ StoreResult

Spec == Init /\ [][Next]_vars

\* ------------------------------------------------- claims on a pipeline run
Ended == run.pc \in {"returned", "stored"}


TimeStageDone == "time" \in Range(run.agentCalls) /\ run.pc # "time"

\* the locationId of every slot of every day schedule, in order
SlotIds(schedules) ==
    Flatten([d \in 1..Len(schedules) |->
                [k \in 1..Len(schedules[d].slots) |-> schedules[d].slots[k].locationId]])

\* C2: once the time stage has run, every location left after vibe and budget
\* filtering has exactly one time slot over all day schedules, with or without
\* coordinates (stated for the runs whose validated ids are pairwise distinct)
C2_SurvivorsScheduledExactlyOnce ==
    (TimeStageDone /\ DistinctIds(run.validatedLocations)) =>
        \A id \in Range(Ids(run.budgetLocations)) :
            CountId(SlotIds(run.schedules), id) = 1

\* C3: once the time stage has run, no time slot names a location that the
\* budget stage removed from the location set
C3_NoSlotForRemovedLocation ==
    TimeStageDone =>
        \A id \in Range(Ids(run.finalLocations)) \ Range(Ids(run.budgetLocations)) :
            id \notin Range(SlotIds(run.schedules))

\* C4: the validated locations have pairwise distinct ids
C4_ValidatedIdsDistinct == DistinctIds(run.validatedLocations)

\* C5: a run with at least one validated location in which the chat
\* collaborator gave no answer to the budget request (its calls failed or were
\* not made) ends in stage complete with a successful result, whatever
\* collaborator calls failed
C5_CollaboratorFailureNeverFatal ==
    (Ended /\ Len(run.validatedLocations) >= 1 /\ run.llmAnswer = <<>>) =>
        /\ LastStatus.stage = "complete"
        /\ run.result[1].success

\* C6: whatever text the chat collaborator answers to the budget request, the
\* budget stage succeeds with an optimization and the run does not end in
\* stage error
C6_AnyBudgetAnswerIsSurvived ==
    (run.llmAnswer # <<>> /\ run.pc # "budget") =>
        /\ run.budget.success
        /\ run.budget.optimization # <<>>
        /\ LastStatus.stage # "error"

\* C7: a run whose validation stage yields no location ends right there, in
\* stage error with a failed result carrying a message; vision and validation
\* are the only agents ever called, each once
C7_NoValidLocationsIsFatal ==
    (run.pc \notin {"idle", "vision", "socialProof"}
        /\ Len(run.validatedLocations) = 0) =>
        /\ Ended
        /\ LastStatus = Status("error", 0)
        /\ ~run.result[1].success
        /\ run.result[1].error # ""
        /\ run.agentCalls = <<"vision", "socialProof">>
        /\ (run.pc = "stored" => /\ run.stored[1].stage = "error"
                                 /\ ~run.stored[1].result.success)

\* C7 witness: names were extracted, none was validated, and the failed result
\* is stored
C7_Witness ==
    /\ run.pc = "stored"
    /\ Len(run.allLocations) >= 2
    /\ Len(run.validatedLocations) = 0

\* ------------------------------------- the pure functions on bounded inputs
\* locations the lists are drawn from: with and without coordinates, one id
\* ("a") borne by two of them
FnUniverse ==
    {Loc("a", "Ramen Bar", <<0>>, "restaurant", 2, <<50>>),
     Loc("b", "City Museum", <<2>>, "attraction", 0, <<30>>),
     Loc("c", "Old Market", <<3>>, "market", 1, <<20>>),
     Loc("d", "Sky Spa", <<>>, "activity", 3, <<120>>),
     Loc("e", "Hill View", <<7>>, "viewpoint", 0, <<>>),
     Loc("a", "Breakfast Club", <<5>>, "restaurant", 3, <<75>>),
     Loc("f", "Tea House", <<>>, "cafe", 0, <<0>>),
     Loc("g", "Grand Hotel", <<4>>, "accommodation", 4, <<400>>),
     Loc("s", "Sushi Dinner House", <<1>>, "restaurant", 4, <<100>>)}

FnInputs ==
    {[pc |-> "input", locations |-> l, numDays |-> d, clusters |-> <<>>,
      order |-> <<>>, routed |-> <<>>, schedules |-> <<>>,
      budget |-> 0, budgetResult |-> NoBudget, startHour |-> 0] :
        l \in SeqsUpTo(FnUniverse, MaxLocs), d \in 1..MaxDays}

\* clusterByProximity applied to the list
FnCluster ==
    /\ fn.pc = "input"
    /\ fn' = [fn EXCEPT !.clusters = clusterByProximity(fn.locations),
                        !.pc = "clustered"]
    /\ UNCHANGED <<run, sessions, server, twin>>

\* optimizeClusterOrder applied to the list
FnRoute ==
    /\ fn.pc = "input"
    /\ fn' = [fn EXCEPT !.order = optimizeClusterOrderIdx(fn.locations),
                        !.routed = optimizeClusterOrder(fn.locations),
                        !.pc = "routed"]
    /\ UNCHANGED <<run, sessions, server, twin>>

\* the hours of preferences.startTime the scheduler is given ("09:00" is the
\* default of POST /plan)
FnStartHours == {9, 11, 15, 17}

\* TimeAgent.process applied to the list, handed over as one cluster
FnSchedule ==
    /\ fn.pc = "input"
    /\ \E h \in FnStartHours :
          fn' = [fn EXCEPT
                    !.startHour = h,
                    !.schedules =
                        timeProcess(<<[locations |-> fn.locations]>>, fn.locations,
                                    [NoPreferences EXCEPT !.startTime = <<h, 0>>],
                                    fn.numDays).schedules,
                    !.pc = "scheduled"]
    /\ UNCHANGED <<run, sessions, server, twin>>

\* the budgets the budget check is given, in whole units
FnBudgets == {30, 46, 50}

\* BudgetAgent.process applied to the list, the chat collaborator answering
\* or failing in every way
FnBudget ==
    /\ fn.pc = "input"
    /\ \E b \in FnBudgets :
       \E reply \in BudgetReplies(fn.locations) :
          fn' = [fn EXCEPT
                    !.budget = b,
                    !.budgetResult =
                        budgetProcess(fn.locations,
                                      [NoPreferences EXCEPT !.budget = b],
                                      fn.numDays, {}, reply),
                    !.pc = "budgeted"]
    /\ UNCHANGED <<run, sessions, server, twin>>

InitFn ==
    /\ run = IdleRun
    /\ sessions = {}
    /\ server = IdleServer
    /\ fn \in FnInputs
    /\ twin = IdleTwin

NextFn ==
    \/ FnCluster
    \/ FnRoute
    \/ FnSchedule
    \/ FnBudget

SpecFn == InitFn /\ [][NextFn]_vars

\* the locations of all clusters, in order
Clustered(clusters) == Flatten([c \in 1..Len(clusters) |-> clusters[c].locations])

\* C8: for a list of pairwise distinct ids, every location with coordinates is
\* in exactly one cluster, no location without coordinates is in any, and no
\* cluster is empty
C8_ClustersPartitionLocated ==
    (fn.pc = "clustered" /\ DistinctIds(fn.locations)) =>
        /\ \A k \in 1..Len(fn.locations) :
              CountId(Ids(Clustered(fn.clusters)), fn.locations[k].id)
                  = (IF fn.locations[k].coordinates # <<>> THEN 1 ELSE 0)
        /\ Range(Clustered(fn.clusters)) \subseteq Range(fn.locations)
        /\ \A c \in 1..Len(fn.clusters) : Len(fn.clusters[c].locations) > 0

\* C8 witness: three locations of distinct ids, one without coordinates, end
\* up in two clusters
C8_Witness ==
    /\ fn.pc = "clustered"
    /\ DistinctIds(fn.locations)
    /\ Len(fn.locations) = 3
    /\ \E k \in 1..3 : fn.locations[k].coordinates = <<>>
    /\ Len(fn.clusters) = 2

\* C9: the router returns a permutation of its input: every id as often as in
\* the input, on a list of the same length
C9_RouterPermutes ==
    fn.pc = "routed" =>
        /\ Len(fn.routed) = Len(fn.locations)
        /\ \A id \in Range(Ids(fn.locations)) \cup Range(Ids(fn.routed)) :
              CountId(Ids(fn.routed), id) = CountId(Ids(fn.locations), id)

\* C9 witness: a list of three whose first location has no coordinates and
\* whose others share an id, routed
C9_Witness ==
    /\ fn.pc = "routed"
    /\ Len(fn.locations) = 3
    /\ fn.locations[1].coordinates = <<>>
    /\ fn.locations[2].id = fn.locations[3].id
    /\ fn.locations[2] # fn.locations[3]

\* C9 second witness: the router reorders a list with a coordinate-less member
C9_WitnessReordered ==
    /\ fn.pc = "routed"
    /\ Len(fn.locations) = 3
    /\ \E k \in 2..3 : fn.locations[k].coordinates = <<>>
    /\ fn.order = <<1, 3, 2>>

\* C10: no day schedule of the scheduler's output has zero slots
C10_NoEmptyDaySchedule ==
    fn.pc = "scheduled" =>
        \A d \in 1..Len(fn.schedules) : Len(fn.schedules[d].slots) > 0

\* C10 witness: a day whose chunk is empty was left out of the output
C10_Witness ==
    /\ fn.pc = "scheduled"
    /\ Len(fn.locations) >= 2
    /\ Len(fn.schedules) >= 1
    /\ Len(fn.schedules) < fn.numDays

\* --------------------------------------- the server under overlapping runs
\* Here a run is followed only through the status events of process, in the
\* order Spec emits them; server.now is Date.now(), server.callback the session
\* id captured by the callback the one orchestrator holds, server.runs the
\* requests accepted so far and server.writes who wrote under which session id.

\* the status events of a run that meets no error
ProcessStatuses ==
    <<Status("extracting", 10), Status("validating", 25), Status("validating", 40),
      Status("validating", 50), Status("clustering", 60), Status("optimizing", 70),
      Status("optimizing", 80), Status("generating", 90), Status("complete", 100)>>

\* the stages whose outcome makes process throw: no validated location, and
\* a failed budget calculation
ThrowingStages == {2, 6}

\* processingStatus.set(sessionId, entry)
statusSet(processingStatus, sessionId, entry) ==
    [k \in DOMAIN processingStatus \cup {sessionId} |->
        IF k = sessionId THEN entry ELSE processingStatus[k]]

\* the callback installed by POST /plan, called by updateStatus of run r: the
\* record of the session the callback captured is replaced by the event
statusCallback(srv, r, status) ==
    IF srv.callback = <<>> THEN srv
    ELSE [srv EXCEPT
             !.processingStatus =
                 statusSet(@, srv.callback[1],
                           [stage |-> status.stage, progress |-> status.progress,
                            result |-> <<>>]),
             !.writes = @ \cup {[run |-> r, session |-> srv.callback[1]]}]

\* POST /plan up to the first await of process: the session id is taken from
\* the clock, its record initialised, the callback replaced, and process
\* emits its first event
SrvPostPlan ==
    /\ Len(server.runs) < MaxRuns
    /\ LET sessionId == server.now
           r == Len(server.runs) + 1
           opened == [server EXCEPT
                         !.processingStatus =
                             statusSet(@, sessionId,
                                       [stage |-> "uploading", progress |-> 5,
                                        result |-> <<>>]),
                         !.writes = @ \cup {[run |-> r, session |-> sessionId]},
                         !.callback = <<sessionId>>,
                         !.runs = Append(@, [sessionId |-> sessionId, at |-> 1,
                                             pc |-> "running",
                                             result |-> <<>>])]
       IN server' = statusCallback(opened, r, ProcessStatuses[1])
    /\ UNCHANGED <<run, sessions, fn, twin>>

\* process resumes after the await of a stage: the stage has failed and the
\* catch block reports it, or the next event is emitted; after 'complete'
\* process returns
SrvResume(r) ==
    /\ r \in 1..Len(server.runs)
    /\ server.runs[r].pc = "running"
    /\ LET k == server.runs[r].at
       IN \E failed \in {f \in BOOLEAN : f => k \in ThrowingStages} :
             IF failed
             THEN server' = [statusCallback(server, r, Status("error", 0)) EXCEPT
                                !.runs[r].pc = "returned",
                                !.runs[r].result = <<FALSE>>]
             ELSE server' = [statusCallback(server, r, ProcessStatuses[k + 1]) EXCEPT
                                !.runs[r].at = k + 1,
                                !.runs[r].pc = IF k + 1 = Len(ProcessStatuses)
                                               THEN "returned" ELSE "running",
                                !.runs[r].result = IF k + 1 = Len(ProcessStatuses)
                                                   THEN <<TRUE>> ELSE <<>>]
    /\ UNCHANGED <<run, sessions, fn, twin>>

\* POST /plan after await resultPromise: the result is added to the record
\* of the request's own session
SrvStoreResult(r) ==
    /\ r \in 1..Len(server.runs)
    /\ server.runs[r].pc = "returned"
    /\ LET sessionId == server.runs[r].sessionId
       IN server' = [server EXCEPT
                        !.processingStatus =
                            statusSet(@, sessionId,
                                      [@[sessionId] EXCEPT
                                          !.result = server.runs[r].result]),
                        !.writes = @ \cup {[run |-> r, session |-> sessionId]},
                        !.runs[r].pc = "stored"]
    /\ UNCHANGED <<run, sessions, fn, twin>>

\* a millisecond passes
SrvTick ==
    /\ server.now < MaxClock
    /\ server' = [server EXCEPT !.now = @ + 1]
    /\ UNCHANGED <<run, sessions, fn, twin>>

InitServer ==
    /\ run = IdleRun
    /\ sessions = {}
    /\ server = IdleServer
    /\ fn = IdleFn
    /\ twin = IdleTwin

NextServer ==
    \/ SrvPostPlan
    \/ \E r \in 1..MaxRuns : SrvResume(r)
    \/ \E r \in 1..MaxRuns : SrvStoreResult(r)
    \/ SrvTick

SpecServer == InitServer /\ [][NextServer]_vars

\* C1: overlapping runs do not interfere: whatever a run writes into
\* processingStatus it writes under its own session id
C1_RunsWriteOwnSessionOnly ==
    \A w \in server.writes : w.session = server.runs[w.run].sessionId

\* --------------------------------------------------------- day allocation
\* the ids of the slots of one day schedule
DaySlotIds(schedule) == [k \in 1..Len(schedule.slots) |-> schedule.slots[k].locationId]

\* C11: the d-th day schedule holds the locations of the d-th contiguous chunk
\* of ceil(n / numDays) positions of the ordered list (as many slots of every
\* id as the chunk has locations of it), no day has more slots than that, and
\* the slots of all days together are as many as the locations
C11_DaysAreContiguousChunks ==
    fn.pc = "scheduled" =>
        LET n == Len(fn.locations)
            perDay == (n + fn.numDays - 1) \div fn.numDays
        IN /\ \A d \in 1..Len(fn.schedules) :
                 LET chunk == Ids(Slice(fn.locations, (d - 1) * perDay, d * perDay))
                 IN /\ Len(fn.schedules[d].slots) <= perDay
                    /\ Len(fn.schedules[d].slots) = Len(chunk)
                    /\ \A id \in Range(chunk) \cup Range(DaySlotIds(fn.schedules[d])) :
                          CountId(DaySlotIds(fn.schedules[d]), id) = CountId(chunk, id)
           /\ SeqSum([d \in 1..Len(fn.schedules) |-> Len(fn.schedules[d].slots)]) = n

\* C11 witness: three locations over two days make a day of two and a day of one
C11_Witness ==
    /\ fn.pc = "scheduled"
    /\ Len(fn.locations) = 3
    /\ fn.numDays = 2
    /\ Len(fn.schedules) = 2
    /\ Len(fn.schedules[1].slots) = 2
    /\ Len(fn.schedules[2].slots) = 1

\* ------------------------------------------------------------ budget check
\* C12: a breakdown total of at most dailyBudget x numDays is reported as not
\* over budget with an overage of 0, equality included (amounts in half units)
C12_WithinBudgetIsNotOver ==
    (fn.pc = "budgeted"
         /\ fn.budgetResult.breakdown.total <= 2 * fn.budget * fn.numDays) =>
        /\ ~fn.budgetResult.isOverBudget
        /\ fn.budgetResult.overageAmount = 0

\* what a breakdown of a single location charges for it: its bucket, without
\* the 10% buffer of misc and per day for accommodation (half units)
ChargedCost(breakdown, numDays) ==
    breakdown.food + breakdown.activities + breakdown.accommodation \div numDays
        + breakdown.misc - 2 * ((breakdown.food + breakdown.activities + 10) \div 20)

\* C13: the breakdown charges a location its estimatedCost when that is present
\* (0 included) and otherwise the base cost of its category, of which viewpoint
\* is 0, times (priceLevel or 2) / 2
C13_ChargedCostIsEstimateOrTable ==
    (fn.pc = "budgeted" /\ Len(fn.locations) = 1) =>
        LET location == fn.locations[1]
        IN ChargedCost(fn.budgetResult.breakdown, fn.numDays)
               = (IF location.estimatedCost # <<>> THEN location.estimatedCost[1]
                  ELSE baseCosts[location.type]
                           * (IF location.priceLevel # 0 THEN location.priceLevel
                              ELSE 2))

\* the sum of what the breakdown charges the locations of the given categories
CostIn(locations, types) ==
    SeqSum([k \in 1..Len(locations) |->
               IF locations[k].type \in types THEN breakdownCost(locations[k]) ELSE 0])

\* C14: food and activities are the sums of their categories, accommodation is
\* numDays times the accommodation costs, transport is 0.15 x activities
\* rounded to the nearest whole unit (halves up), misc is the costs of the
\* other categories plus 0.10 x (food + activities) rounded likewise, and the
\* total is the sum of the five (amounts in half units: a whole amount is even)
C14_BreakdownIdentities ==
    fn.pc = "budgeted" =>
        LET b == fn.budgetResult.breakdown
            buffer == b.misc - CostIn(fn.locations,
                                      {"viewpoint", "market", "temple", "cafe", "other"})
        IN /\ b.food = CostIn(fn.locations, {"restaurant"})
           /\ b.activities = CostIn(fn.locations, {"attraction", "activity"})
           /\ b.accommodation = fn.numDays * CostIn(fn.locations, {"accommodation"})
           /\ b.transport % 2 = 0
           /\ 20 * b.transport <= 3 * b.activities + 20
           /\ 3 * b.activities + 20 < 20 * b.transport + 40
           /\ buffer % 2 = 0
           /\ 10 * buffer <= b.food + b.activities + 10
           /\ b.food + b.activities + 10 < 10 * buffer + 20
           /\ b.total = b.food + b.activities + b.transport + b.accommodation + b.misc

\* the scenario of C14: a restaurant costing 25 and an attraction costing 15,
\* budget 50, one day
C14_Scenario ==
    /\ fn.pc = "budgeted"
    /\ Len(fn.locations) = 2
    /\ fn.locations[1].type = "restaurant" /\ fn.locations[1].estimatedCost = <<50>>
    /\ fn.locations[2].type = "attraction" /\ fn.locations[2].estimatedCost = <<30>>
    /\ fn.budget = 50
    /\ fn.numDays = 1

\* C14, the scenario: food 25, activities 15, transport 2, misc 4, total 46,
\* not over budget
C14_ScenarioBreakdown ==
    C14_Scenario =>
        /\ fn.budgetResult.breakdown =
               [food |-> 50, activities |-> 30, transport |-> 4, accommodation |-> 0,
                misc |-> 8, total |-> 92]
        /\ ~fn.budgetResult.isOverBudget
        /\ fn.budgetResult.overageAmount = 0

\* C14: the identities and the scenario together
C14_Breakdown == C14_BreakdownIdentities /\ C14_ScenarioBreakdown

\* C14 witness: the scenario has been computed
C14_Witness == C14_Scenario /\ fn.budgetResult.success

\* --------------------------------------------------------- time scheduling
\* all slots of all day schedules, in order
AllSlots(schedules) == Flatten([d \in 1..Len(schedules) |-> schedules[d].slots])

\* minutes from midnight of an <<HH, MM>> time
TimeMinutes(time) == time[1] * 60 + time[2]

\* C15: every slot lasts what the table gives for the category of its
\* location (accommodation 0, viewpoint 45, ...), and ends that many minutes
\* after it starts
C15_SlotDurationFromTable ==
    fn.pc = "scheduled" =>
        \A k \in 1..Len(AllSlots(fn.schedules)) :
            LET slot == AllSlots(fn.schedules)[k]
            IN /\ \E l \in Range(fn.locations) :
                     /\ l.id = slot.locationId
                     /\ slot.duration = visitDurations[l.type]
               /\ (TimeMinutes(slot.endTime) - TimeMinutes(slot.startTime)) % 1440
                      = slot.duration

\* C16: a day whose only location is a restaurant named for neither breakfast
\* nor dinner, scheduled from 09:00, has its slot start at 12:00 or later
C16_LoneRestaurantStartsAtNoon ==
    (/\ fn.pc = "scheduled"
     /\ fn.startHour = 9
     /\ Len(fn.locations) = 1
     /\ fn.locations[1].type = "restaurant"
     /\ ~NameIncludes(fn.locations[1].name, "breakfast")
     /\ ~NameIncludes(fn.locations[1].name, "dinner")) =>
        /\ Len(fn.schedules) = 1
        /\ Len(fn.schedules[1].slots) = 1
        /\ TimeMinutes(fn.schedules[1].slots[1].startTime) >= 12 * 60

\* ----------------------------------------------------- clusters and routes
\* a location with coordinates lies within the cluster radius of the seed
WithinRadius(seed, location) ==
    /\ location.coordinates # <<>>
    /\ haversineDistance(seed.coordinates, location.coordinates) <= CLUSTER_RADIUS_KM

\* C17: for every cluster, any two locations of the list (of distinct ids) that
\* both lie within 3 km of the cluster's seed, its first member, are members of
\* one and the same cluster
C17_NearSeedSameCluster ==
    (fn.pc = "clustered" /\ DistinctIds(fn.locations)) =>
        \A c \in 1..Len(fn.clusters) :
            \A l1, l2 \in Range(fn.locations) :
                (WithinRadius(fn.clusters[c].locations[1], l1)
                    /\ WithinRadius(fn.clusters[c].locations[1], l2)) =>
                    \E d \in 1..Len(fn.clusters) :
                        {l1, l2} \subseteq Range(fn.clusters[d].locations)

\* ------------------------------------- two runs given the same request
\* Both runs are given the same screenshots and the same collaborator
\* outcomes: a call fails for both or answers both alike. What a fallback draws
\* with Math.random() is each run's own.

\* stage 1 of both runs: the analysis answers both with the same names, or
\* fails for both and each falls back on a row of mockSmartExtraction
TwinVision ==
    /\ run.pc = "idle" /\ twin.pc = "idle"
    /\ \E failed \in BOOLEAN :
       \E names1, names2 \in IF failed THEN MockRows
                             ELSE {SubSeq(ExtractedNames, 1, k) : k \in 0..MaxNames} :
          /\ ~failed => names1 = names2
          /\ run' = [run EXCEPT
                        !.allLocations = names1,
                        !.failures = IF failed THEN {<<"vision", "analyze">>} ELSE {},
                        !.pc = "socialProof"]
          /\ twin' = [twin EXCEPT !.allLocations = names2, !.pc = "socialProof"]
    /\ UNCHANGED <<sessions, server, fn>>

\* the answers of the places search to the second run: where the first run's
\* search failed it fails, where it answered it answers the same
twinResponses(names, responses) ==
    {t \in [1..Len(names) -> SearchResponses] :
        \A k \in 1..Len(names) :
            k \in DOMAIN responses =>
                /\ t[k].failed = responses[k].failed
                /\ t[k].results = responses[k].results}

\* stage 2 of both runs
TwinSocialProof ==
    /\ run.pc = "socialProof" /\ twin.pc = "socialProof"
    /\ \E responses \in [1..Len(run.allLocations) -> SearchResponses] :
       \E responses2 \in twinResponses(twin.allLocations, responses) :
          /\ run' = [run EXCEPT
                        !.validatedLocations =
                            socialProofProcess(run.allLocations,
                                               responses).validatedLocations,
                        !.failures = @ \cup
                            (IF \E k \in DOMAIN responses : responses[k].failed
                             THEN {<<"places", "search">>} ELSE {}),
                        !.pc = "validated"]
          /\ twin' = [twin EXCEPT
                         !.validatedLocations =
                             socialProofProcess(twin.allLocations,
                                                responses2).validatedLocations,
                         !.pc = "validated"]
    /\ UNCHANGED <<sessions, server, fn>>

InitTwin ==
    /\ run = IdleRun
    /\ sessions = {}
    /\ server = IdleServer
    /\ fn = IdleFn
    /\ twin = IdleTwin

NextTwin ==
    \/ TwinVision
    \/ TwinSocialProof

SpecTwin == InitTwin /\ [][NextTwin]_vars

\* C18: two runs given the same request, with the same collaborator calls
\* failing, extract the same location names and validate the same locations
\* (ids, coordinates, price levels)
C18_FallbacksDeterministic ==
    /\ twin.pc \in {"socialProof", "validated"} => twin.allLocations = run.allLocations
    /\ twin.pc = "validated" => twin.validatedLocations = run.validatedLocations

\* the distance between the locations at two positions of the routed list
RouteDist(i, j) ==
    haversineDistance(fn.locations[i].coordinates, fn.locations[j].coordinates)

C19_WitnessReordered ==
    /\ fn.pc = "routed"
    /\ Len(fn.locations) = 3
    /\ \A i \in 1..3 : fn.locations[i].coordinates # <<>>
    /\ fn.order = <<1, 3, 2>>

\* the category of the location a slot is for
SlotType(slot) == (CHOOSE l \in Range(fn.locations) : l.id = slot.locationId).type

\* the time of day, in minutes, at which the day clock reaches the k-th slot of
\* a day: the day's start for the first, else the end of the slot before plus
\* the travel time and the rest break taken before every fourth location
ReachedAt(schedule, k) ==
    IF k = 1 THEN fn.startHour * 60
    ELSE (TimeMinutes(schedule.slots[k - 1].endTime) + schedule.slots[k].travelTime
              + (IF (k - 1) % 3 = 0 THEN 20 ELSE 0)) % 1440

InMealWindow(minutes) ==
    (11 * 60 <= minutes /\ minutes < 12 * 60) \/ (17 * 60 <= minutes /\ minutes < 18 * 60)

\* C20: no restaurant slot starts in [11:00,12:00) or [17:00,18:00); a
\* restaurant reached in one of them starts at 12:00 or 18:00 sharp; a
\* restaurant reached at another time and every other location start when
\* they are reached, so that the clock never goes back
C20_MealAlignment ==
    fn.pc = "scheduled" =>
        \A d \in 1..Len(fn.schedules) :
            \A k \in 1..Len(fn.schedules[d].slots) :
                LET slot == fn.schedules[d].slots[k]
                    start == TimeMinutes(slot.startTime)
                    reached == ReachedAt(fn.schedules[d], k)
                IN IF SlotType(slot) = "restaurant"
                   THEN /\ ~InMealWindow(start)
                        /\ (11 * 60 <= reached /\ reached < 12 * 60) => start = 12 * 60
                        /\ (17 * 60 <= reached /\ reached < 18 * 60) => start = 18 * 60
                        /\ ~InMealWindow(reached) => start = reached
                        /\ (start + 1440 - reached) % 1440 <= 60
                   ELSE start = reached

\* C20 witness: the third location of a day is a restaurant reached between
\* 11:00 and 12:00 and starts at 12:00
C20_Witness ==
    /\ fn.pc = "scheduled"
    /\ Len(fn.schedules) >= 1
    /\ Len(fn.schedules[1].slots) = 3
    /\ SlotType(fn.schedules[1].slots[3]) = "restaurant"
    /\ ReachedAt(fn.schedules[1], 3) > 11 * 60
    /\ ReachedAt(fn.schedules[1], 3) < 12 * 60
    /\ fn.schedules[1].slots[3].startTime = <<12, 0>>

\* C20 second witness: a restaurant reached between 17:00 and 18:00 starts at
\* 18:00
C20_WitnessEvening ==
    /\ fn.pc = "scheduled"
    /\ \E d \in 1..Len(fn.schedules) :
       \E k \in 1..Len(fn.schedules[d].slots) :
          /\ SlotType(fn.schedules[d].slots[k]) = "restaurant"
          /\ ReachedAt(fn.schedules[d], k) >= 17 * 60
          /\ ReachedAt(fn.schedules[d], k) < 18 * 60
          /\ fn.schedules[d].slots[k].startTime = <<18, 0>>

\* ------------------------------------------------- one long day, scheduled
\* the locations the day is drawn from
DayUniverse ==
    {Loc("s", "Sushi Dinner House", <<0>>, "restaurant", 4, <<100>>),
     Loc("b", "City Museum", <<2>>, "attraction", 0, <<30>>),
     Loc("d", "Sky Spa", <<>>, "activity", 3, <<120>>),
     Loc("f", "Tea House", <<9>>, "cafe", 0, <<0>>)}

DayInputs ==
    {[pc |-> "input", locations |-> l, numDays |-> 1, clusters |-> <<>>,
      order |-> <<>>, routed |-> <<>>, schedules |-> <<>>,
      budget |-> 0, budgetResult |-> NoBudget, startHour |-> 0] :
        l \in SeqsUpTo(DayUniverse, MaxDayLocs)}

InitDay ==
    /\ run = IdleRun
    /\ sessions = {}
    /\ server = IdleServer
    /\ fn \in DayInputs
    /\ twin = IdleTwin

NextDay == FnSchedule

SpecDay == InitDay /\ [][NextDay]_vars

\* the minutes between the end of the slot before the k-th and the start of
\* the k-th that are not travel: rest break and wait for the meal time
IdleBefore(schedule, k) ==
    (TimeMinutes(schedule.slots[k].startTime) + 2880
        - TimeMinutes(schedule.slots[k - 1].endTime)
        - schedule.slots[k].travelTime) % 1440

SlotLocation(slot) == CHOOSE l \in Range(fn.locations) : l.id = slot.locationId

SlotPosition(slot) == CHOOSE i \in 1..Len(fn.locations) : fn.locations[i].id = slot.locationId

\* C22: the slots of a day are in non-decreasing order of the optimal start
\* minute of their locations (attraction 09:00, market 10:00, restaurant 12:00,
\* or 08:00 with breakfast and 19:00 with dinner in its name, viewpoint 17:00,
\* any other 11:00), and of two with the same minute the one earlier in the
\* routed list comes first
C22_DaySortedByOptimalStart ==
    (fn.pc = "scheduled" /\ DistinctIds(fn.locations)) =>
        LET minute(l) ==
                CASE l.type = "attraction" -> 9 * 60
                  [] l.type = "market" -> 10 * 60
                  [] l.type = "viewpoint" -> 17 * 60
                  [] l.type = "restaurant" /\ NameIncludes(l.name, "breakfast") -> 8 * 60
                  [] l.type = "restaurant" /\ ~NameIncludes(l.name, "breakfast")
                         /\ NameIncludes(l.name, "dinner") -> 19 * 60
                  [] l.type = "restaurant" /\ ~NameIncludes(l.name, "breakfast")
                         /\ ~NameIncludes(l.name, "dinner") -> 12 * 60
                  [] OTHER -> 11 * 60
        IN \A d \in 1..Len(fn.schedules) :
              \A i, j \in 1..Len(fn.schedules[d].slots) :
                  i < j =>
                      LET first == fn.schedules[d].slots[i]
                          second == fn.schedules[d].slots[j]
                      IN /\ minute(SlotLocation(first)) <= minute(SlotLocation(second))
                         /\ minute(SlotLocation(first)) = minute(SlotLocation(second))
                                => SlotPosition(first) < SlotPosition(second)

\* C22 witness: a day given as dinner restaurant, spa, hotel is scheduled spa,
\* hotel, dinner restaurant
C22_Witness ==
    /\ fn.pc = "scheduled"
    /\ Ids(fn.locations) = <<"s", "d", "g">>
    /\ Len(fn.schedules) = 1
    /\ DaySlotIds(fn.schedules[1]) = <<"d", "g", "s">>

\* C22 second witness: a breakfast restaurant given after a museum is
\* scheduled before it
C22_WitnessBreakfast ==
    /\ fn.pc = "scheduled"
    /\ Len(fn.locations) = 2
    /\ fn.locations[1].name = "City Museum"
    /\ fn.locations[2].name = "Breakfast Club"
    /\ Len(fn.schedules) = 1
    /\ DaySlotIds(fn.schedules[1]) = <<"a", "b">>

\* ------------------------------------------- the budget fallback on long lists
\* costs in half units: a restaurant of price level 4, an activity above 50,
\* an attraction at exactly 30, and six locations that are dearer than 30 and
\* qualify for no replacement, two of them equally dear
BudgetUniverse ==
    {Loc("s", "Sushi Dinner House", <<1>>, "restaurant", 4, <<200>>),
     Loc("d", "Sky Spa", <<>>, "activity", 3, <<120>>),
     Loc("b", "City Museum", <<2>>, "attraction", 0, <<60>>),
     Loc("a", "Ramen Bar", <<0>>, "restaurant", 2, <<100>>),
     Loc("c", "Old Market", <<3>>, "market", 0, <<100>>),
     Loc("g", "Grand Hotel", <<4>>, "accommodation", 4, <<400>>),
     Loc("e", "Hill View", <<7>>, "viewpoint", 0, <<80>>),
     Loc("t", "Moss Temple", <<6>>, "temple", 0, <<70>>),
     Loc("h", "Boat Tour", <<5>>, "activity", 2, <<100>>)}

\* the budgets of the long lists, in whole units
BudgetTargets == {50, 300, 450}

\* the orders the locations come in: by falling cost, by rising cost, mixed
BudgetRows ==
    {<<"g", "s", "d", "h", "c", "a", "e", "t", "b">>,
     <<"b", "t", "e", "a", "c", "h", "d", "s", "g">>,
     <<"b", "c", "a", "d", "s", "g", "e", "t", "h">>}

\* the locations of a row at the chosen positions, in the order of the row
BudgetList(row, positions) ==
    LET at == AscSeq(positions)
    IN [k \in 1..Len(at) |-> CHOOSE l \in BudgetUniverse : l.id = row[at[k]]]

\* every choice of at most MaxBudgetLocs locations of a row
BudgetInputs ==
    {[pc |-> "input", locations |-> BudgetList(row, positions), numDays |-> 1,
      clusters |-> <<>>, order |-> <<>>, routed |-> <<>>, schedules |-> <<>>,
      budget |-> 0, budgetResult |-> NoBudget, startHour |-> 0] :
        row \in BudgetRows,
        positions \in {p \in SUBSET (1..Cardinality(BudgetUniverse)) :
                          Cardinality(p) <= MaxBudgetLocs}}

\* BudgetAgent.process when the chat collaborator fails the query or answers
\* without JSON: optimizeBudget falls back to simpleOptimization
FnBudgetFallback ==
    /\ fn.pc = "input"
    /\ \E b \in BudgetTargets :
       \E reply \in {r \in BudgetReplies(fn.locations) :
                        r.kind # "sessionError" /\ ~r.answer.json} :
          fn' = [fn EXCEPT
                    !.budget = b,
                    !.budgetResult =
                        budgetProcess(fn.locations,
                                      [NoPreferences EXCEPT !.budget = b],
                                      fn.numDays, {}, reply),
                    !.pc = "budgeted"]
    /\ UNCHANGED <<run, sessions, server, twin>>

InitBudget ==
    /\ run = IdleRun
    /\ sessions = {}
    /\ server = IdleServer
    /\ fn \in BudgetInputs
    /\ twin = IdleTwin

NextBudget == FnBudgetFallback

SpecBudget == InitBudget /\ [][NextBudget]_vars

\* the fallback's answer of an over-budget check
Fallback == fn.budgetResult.optimization[1]

\* the entries of a list of the answer hold the location of the given id
Listed(list, id) == \E k \in 1..Len(list) : list[k].location = <<id>>

\* C23: the local budget fallback visits the locations by descending
\* estimatedCost (an absent one counting 0, ties in the order given), puts each
\* location in exactly one of keep / replace / remove, keeps every location it
\* visits once the savings reach the overage, replaces only restaurants of
\* price level 3 or more and activities dearer than 50, and removes only
\* locations dearer than 30 of a list of more than 5 that do not qualify for
\* replacement
C23_FallbackTriage ==
    (fn.pc = "budgeted" /\ fn.budgetResult.isOverBudget) =>
        LET locs == fn.locations
            n == Len(locs)
            overage == fn.budgetResult.breakdown.total - 2 * fn.budget
            cost(i) == IF locs[i].estimatedCost = <<>> THEN 0
                       ELSE locs[i].estimatedCost[1]
            before(i, j) == cost(i) > cost(j) \/ (cost(i) = cost(j) /\ i < j)
            dearRestaurant(i) == locs[i].type = "restaurant" /\ locs[i].priceLevel >= 3
            dearActivity(i) == locs[i].type = "activity" /\ cost(i) > 2 * 50
            kept(i) == Listed(Fallback.keep, locs[i].id)
            replaced(i) == Listed(Fallback.replace, locs[i].id)
            removed(i) == Listed(Fallback.remove, locs[i].id)
            saved(i) == IF removed(i) THEN cost(i)
                        ELSE IF replaced(i) /\ dearRestaurant(i)
                             THEN 2 * ((cost(i) + 2) \div 4)
                        ELSE IF replaced(i) THEN 2 * ((7 * cost(i) + 10) \div 20)
                        ELSE 0
            savedBefore(i) ==
                SeqSum([j \in 1..n |-> IF before(j, i) THEN saved(j) ELSE 0])
            position(entry) == CHOOSE i \in 1..n : entry.location = <<locs[i].id>>
            inVisitOrder(list) ==
                \A k, m \in 1..Len(list) :
                    k < m => before(position(list[k]), position(list[m]))
        IN /\ Len(Fallback.keep) + Len(Fallback.replace) + Len(Fallback.remove) = n
           /\ \A i \in 1..n :
                 /\ kept(i) \/ replaced(i) \/ removed(i)
                 /\ ~(kept(i) /\ replaced(i))
                 /\ ~(kept(i) /\ removed(i))
                 /\ ~(replaced(i) /\ removed(i))
                 /\ savedBefore(i) >= overage => kept(i)
                 /\ replaced(i) => dearRestaurant(i) \/ dearActivity(i)
                 /\ removed(i) => /\ cost(i) > 2 * 30
                                  /\ n > 5
                                  /\ ~dearRestaurant(i)
                                  /\ ~dearActivity(i)
           /\ inVisitOrder(Fallback.keep)
           /\ inVisitOrder(Fallback.replace)
           /\ inVisitOrder(Fallback.remove)

\* C23 witness: of six locations 228 over the budget the hotel is removed, the
\* dear restaurant replaced, and the rest kept in the order visited, the spa
\* and the second restaurant included
C23_Witness ==
    /\ fn.pc = "budgeted"
    /\ fn.budgetResult.isOverBudget
    /\ Ids(fn.locations) = <<"b", "c", "a", "d", "s", "g">>
    /\ fn.budget = 300
    /\ Fallback.remove = <<entryOf(Loc("g", "Grand Hotel", <<4>>, "accommodation", 4, <<400>>))>>
    /\ Len(Fallback.replace) = 1
    /\ Listed(Fallback.replace, "s")
    /\ [k \in 1..4 |-> Fallback.keep[k].location[1]] = <<"d", "c", "a", "b">>

\* ------------------------------------------------ the status events of a run
\* the events process has emitted: the status log after the record the route
\* sets before it calls process
ProcessEvents == Tail(run.statusLog)

\* C24: the status events of a run are a prefix of extracting 10, validating
\* 25, validating 40, validating 50, clustering 60, optimizing 70, optimizing
\* 80, generating 90, complete 100, followed by at most one error event and by
\* none after complete; the agents are called in stage order, one per stage
\* event, and the run has returned exactly when its last event is terminal
C24_StatusEventsInStageOrder ==
    run.pc # "idle" =>
        LET stages == <<Status("extracting", 10), Status("validating", 25),
                        Status("validating", 40), Status("validating", 50),
                        Status("clustering", 60), Status("optimizing", 70),
                        Status("optimizing", 80), Status("generating", 90),
                        Status("complete", 100)>>
            agents == <<"vision", "socialProof", "location", "vibe", "clustering",
                        "budget", "time", "itinerary">>
            events == ProcessEvents
            n == Len(events)
            failed == n > 0 /\ events[n].stage = "error"
            k == IF failed THEN n - 1 ELSE n
        IN /\ k <= Len(stages)
           /\ SubSeq(events, 1, k) = SubSeq(stages, 1, k)
           /\ failed => (k >= 1 /\ k < Len(stages) /\ events[n].progress = 0)
           /\ \A i \in 1..(k - 1) : events[i].progress < events[i + 1].progress
           /\ run.agentCalls = SubSeq(agents, 1, Min2(k, Len(agents)))
           /\ Ended <=> (failed \/ k = Len(stages))
           /\ Ended => run.result[1].success = ~failed

\* C24 witness: a run that emitted all nine events and returned its itinerary
C24_Witness ==
    /\ run.pc = "stored"
    /\ Len(ProcessEvents) = 9
    /\ ProcessEvents[9] = Status("complete", 100)
    /\ Len(run.agentCalls) = 8
    /\ run.result[1].success

\* C24 second witness: a run that failed in the budget stage, with the error
\* event after optimizing 70
C24_WitnessError ==
    /\ Ended
    /\ Len(ProcessEvents) = 7
    /\ ProcessEvents[6] = Status("optimizing", 70)
    /\ ProcessEvents[7] = Status("error", 0)
    /\ ~run.result[1].success

\* ------------------------------------------------- the days of the itinerary
\* C25: in the itinerary of a successful run, day d has one item per slot of
\* day schedule d, and the i-th item holds the location named by the i-th slot
\* together with that slot's start time, end time, duration and travel time
C25_ItemsFollowSlots ==
    (Ended /\ run.result[1].success) =>
        /\ Len(run.days) = Len(run.schedules)
        /\ \A d \in 1..Len(run.days) :
              LET items == run.days[d].locations
                  slots == run.schedules[d].slots
              IN /\ Len(items) = Len(slots)
                 /\ \A i \in 1..Len(items) :
                       /\ items[i].location.id = slots[i].locationId
                       /\ items[i].startTime = slots[i].startTime
                       /\ items[i].endTime = slots[i].endTime
                       /\ items[i].duration = slots[i].duration
                       /\ items[i].travelTime = slots[i].travelTime

\* ------------------------------------------- the server with a fair event loop
\* the event loop runs every continuation that is ready: a process that can
\* resume does resume, and a returned result is stored
SpecServerFair ==
    /\ InitServer
    /\ [][NextServer]_vars
    /\ \A r \in 1..MaxRuns : WF_vars(SrvResume(r)) /\ WF_vars(SrvStoreResult(r))

\* request r has been accepted
Accepted(r) == r <= Len(server.runs)

\* the record of request r's session holds the result of the run next to a
\* terminal stage, which is when a polling client stops
PollingStops(r) ==
    /\ Accepted(r)
    /\ LET record == server.processingStatus[server.runs[r].sessionId]
       IN \/ record.stage = "complete" /\ record.result = <<TRUE>>
          \/ record.stage = "error" /\ record.result = <<FALSE>>

\* C26: for every accepted POST /plan, overlapping ones included, the status
\* record of its session eventually holds the result of the run together with
\* a terminal stage: 'complete' with a successful result or 'error' with a
\* failed one
C26_EveryAcceptedRunEndsTerminal ==
    \A r \in 1..MaxRuns : Accepted(r) ~> PollingStops(r)

\* C27: every accepted POST /plan gets a session id that no earlier accepted
\* request got, also when both arrive within one millisecond
C27_SessionIdsDistinct ==
    \A r, q \in 1..Len(server.runs) :
        r # q => server.runs[r].sessionId # server.runs[q].sessionId

\* ------------------------------------------------------- the vibe filter
VibeStageDone == "vibe" \in Range(run.agentCalls) /\ run.pc # "vibe"

\* the enriched locations the vibe stage finds incompatible with the preferences
Incompatible ==
    SelectSeq(run.enrichedLocations,
              LAMBDA l : ~isCompatible(inferLocationVibe(l), run.preferences))

\* C28: the vibe filter never removes every location: when enrichment yields
\* at least one location, the list handed to clustering is not empty, whichever
\* of the locations the vibe stage finds incompatible
C28_VibeFilterLeavesSome ==
    (VibeStageDone /\ Len(run.enrichedLocations) >= 1) =>
        Len(run.finalLocations) >= 1

\* C28 witness: both locations of a run are incompatible and both are kept
C28_Witness ==
    /\ VibeStageDone
    /\ Len(run.enrichedLocations) = 2
    /\ Incompatible = run.enrichedLocations
    /\ run.finalLocations = run.enrichedLocations

\* C28 second witness: one of two locations is incompatible and is filtered out
C28_WitnessFiltered ==
    /\ VibeStageDone
    /\ Len(run.enrichedLocations) = 2
    /\ Len(Incompatible) = 1
    /\ Len(run.finalLocations) = 1
    /\ run.finalLocations[1] \notin Range(Incompatible)

\* C29: the budget-adjusted location list is never empty: whenever the check
\* finds the list over budget and the local fallback decides, removing the
\* locations of its remove list leaves at least one location
C29_FallbackLeavesSome ==
    (fn.pc = "budgeted" /\ fn.budgetResult.isOverBudget) =>
        /\ fn.budgetResult.adjustedLocations # <<>>
        /\ Len(fn.budgetResult.adjustedLocations[1]) >= 1

\* C30: within a day schedule the HH:MM windows are ordered and do not
\* overlap: no slot ends before it starts, and no slot starts before the one
\* before it has ended
C30_WindowsOrdered ==
    fn.pc = "scheduled" =>
        \A d \in 1..Len(fn.schedules) :
            LET slots == fn.schedules[d].slots
            IN \A k \in 1..Len(slots) :
                  /\ TimeMinutes(slots[k].endTime) >= TimeMinutes(slots[k].startTime)
                  /\ k > 1 => TimeMinutes(slots[k].startTime)
                                  >= TimeMinutes(slots[k - 1].endTime)

====
